---- MODULE Spec2Model ----
(***************************************************************************)
(* Model of public/app.js of home-tasks: the 12-week cycle clock, the      *)
(* occurrence index, the due-date calculator, and the history / task-state *)
(* store adapters with their remote (Firestore) and local (localStorage)   *)
(* paths.                                                                  *)
(*                                                                         *)
(* Time.  A JavaScript Date is an instant in milliseconds.  Every duration *)
(* the program uses is a whole number of hours, so an instant is modelled  *)
(* as an integer number of hours relative to REFERENCE_DATE                *)
(* (2024-01-01T00:00Z, a Monday).  The browser's time zone is a fixed      *)
(* offset tz (hours east of UTC); daylight-saving transitions are not      *)
(* modelled.  A calendar date string is modelled by its day index (days    *)
(* since 2024-01-01).                                                      *)
(***************************************************************************)
EXTENDS Integers, Sequences, FiniteSets, TLC

VARIABLES
    \* --- cycle clock (SpecClock)
    clkNow,      \* the instant new Date() returns
    clkWeek,     \* the week number shown by displayCurrentDate (0: not yet)
    clkPrev,     \* the week number shown before the clock was moved
    clkPhase     \* "start" | "shown" | "fwd" | "back" | "mirror"

clockVars == <<clkNow, clkWeek, clkPrev, clkPhase>>

VARIABLES
    \* --- occurrence index and due-date calculator (SpecOcc, SpecDue)
    schedule,    \* the global schedule: <<>> (null) or <<the loaded document>>
    dueTask,     \* the task passed in: [name, lastCompleted (<<>> or <<day>>)]
    dueNow,      \* the instant new Date() returns
    dueTz,       \* the browser's offset from UTC, in hours
    dueOcc,      \* <<>> or <<the list findTaskOccurrences returned>>
    dueResult    \* <<>> or <<the object getNextScheduledDate returned>>

dueVars == <<schedule, dueTask, dueNow, dueTz, dueOcc, dueResult>>

VARIABLES
    \* --- stores and clients (SpecSync, SpecPrune)
    clock,         \* the instant new Date() returns, the same for every client
    remoteHistory, \* taskHistory/shared: <<>> (no document) or <<its data>>
    remoteStates,  \* taskStates: the documents that exist, by date key
    db,            \* per client: the global db is set (not null)
    boot,          \* per client: position in the DOMContentLoaded handler
    initOk,        \* per client: what initializeFirebase returned
    usedRemote,    \* per client: a store call went to Firestore after that
    listening,     \* per client: setupRealtimeListeners attached listeners
    checkbox,      \* per client: the checked property of each task checkbox
    localHistory,  \* per client: localStorage item 'taskHistory'
    localStates,   \* per client: localStorage item 'homeTasks'
    handlers,      \* per client: the change handlers suspended at an await
    nToggles,      \* number of checkbox changes so far; numbers the actions
    log            \* per checkbox change: the store events of its handler

syncVars == <<clock, remoteHistory, remoteStates, db, boot, initOk, usedRemote,
              listening, checkbox, localHistory, localStates, handlers,
              nToggles, log>>

vars == <<clockVars, dueVars, syncVars>>

----------------------------------------------------------------------------
(* Program constants and Date arithmetic                                    *)

CYCLE_LENGTH_WEEKS == 12

\* new Date('2024-01-01'): the origin of the model's time axis.
REFERENCE_DATE == 0

\* 2024-01-01 is a Monday: Date.getDay() is 1 there.
ReferenceWeekday == 1

\* 1000 * 60 * 60 * 24 milliseconds, in the model's unit (hours).
HoursPerDay == 24

DayLength == HoursPerDay

WeekLength == DayLength * 7

\* (12 * 7) days: the length of one cycle.
CycleLength == CYCLE_LENGTH_WEEKS * WeekLength

Abs(x) == IF x < 0 THEN -x ELSE x

\* Math.floor(a / b) for b > 0.
Floor(a, b) == a \div b

\* JavaScript's %: the remainder takes the sign of the dividend.
JsRem(a, b) == IF a >= 0 THEN a % b ELSE -((-a) % b)

----------------------------------------------------------------------------
(* Cycle clock                                                              *)

getCurrentWeekInCycleNoAbs(today) ==
    LET diffTime  == today - REFERENCE_DATE
        diffWeeks == Floor(diffTime, WeekLength)
    IN  JsRem(diffWeeks, CYCLE_LENGTH_WEEKS) + 1

getCurrentWeekInCycleNoMod(today) ==
    LET diffTime  == Abs(today - REFERENCE_DATE)
        diffWeeks == Floor(diffTime, WeekLength)
    IN  diffWeeks + 1

\* getCurrentWeekInCycle with new Date() = today.
getCurrentWeekInCycle(today) ==
    LET diffTime  == Abs(today - REFERENCE_DATE)
        diffWeeks == Floor(diffTime, WeekLength)
    IN  JsRem(diffWeeks, CYCLE_LENGTH_WEEKS) + 1

----------------------------------------------------------------------------
(* Local calendar arithmetic of Date, for a browser at offset tz            *)

\* The local calendar day (days since 2024-01-01) in which instant t lies:
\* what toDateString() and toLocaleDateString() show.
LocalDay(t, tz) == Floor(t + tz, DayLength)

\* setHours(0, 0, 0, 0): the local midnight at or before t.
setHoursZero(t, tz) == LocalDay(t, tz) * DayLength - tz

\* Date.getDay(): 0 = Sunday .. 6 = Saturday, in local time.
getDay(t, tz) == (LocalDay(t, tz) + ReferenceWeekday) % 7

\* d.setDate(d.getDate() + k): k local calendar days later.
addDays(t, k) == t + k * DayLength

\* new Date('YYYY-MM-DD'): a date-only string is read as UTC midnight.
parseDate(day) == REFERENCE_DATE + day * DayLength

\* new Date().toISOString().split('T')[0]: the UTC calendar day.
toISODate(t) == Floor(t - REFERENCE_DATE, DayLength)

SeqMin(q) == CHOOSE x \in {q[i] : i \in DOMAIN q} :
                 \A y \in {q[i] : i \in DOMAIN q} : x <= y

----------------------------------------------------------------------------
(* Occurrence index                                                         *)

daysOfWeek ==
    <<"Sunday", "Monday", "Tuesday", "Wednesday", "Thursday", "Friday", "Saturday">>

\* The key order of each week object of schedule.json.
DayKeys ==
    <<"Monday", "Tuesday", "Wednesday", "Thursday", "Friday", "Saturday", "Sunday">>

\* daysOfWeek.indexOf(dayName), zero-based; -1 when absent.
indexOf(q, x) ==
    IF \E i \in DOMAIN q : q[i] = x
      THEN (CHOOSE i \in DOMAIN q : q[i] = x /\ \A j \in 1 .. (i - 1) : q[j] # x) - 1
      ELSE -1

\* tasks.some(t => t.name === taskName); a task is modelled by its name.
some(tasks, taskName) == \E i \in DOMAIN tasks : tasks[i] = taskName

\* schedule.twelve_week_schedule[`week_${w}`][d].  The rotation grid is kept
\* as a function on the slots <<w, d>> whose task list is not empty; every
\* other slot of the 12 x 7 grid holds the empty list.
weekDayTasks(tws, w, d) == IF <<w, d>> \in DOMAIN tws THEN tws[<<w, d>>] ELSE <<>>

\* The (week, day) pairs in the order the two loops visit them.
AllSlots ==
    [i \in 1 .. (CYCLE_LENGTH_WEEKS * 7) |->
        <<((i - 1) \div 7) + 1, DayKeys[((i - 1) % 7) + 1]>>]

findTaskOccurrencesNoDailyCheck(sched, taskName) ==
    IF sched = <<>> THEN <<>>
    ELSE LET tws  == sched[1].twelve_week_schedule
             hits == SelectSeq(AllSlots,
                        LAMBDA sl : some(weekDayTasks(tws, sl[1], sl[2]), taskName))
         IN  [i \in 1 .. Len(hits) |->
                [type |-> "weekly", week |-> hits[i][1], dayName |-> hits[i][2],
                 dayOfWeek |-> indexOf(daysOfWeek, hits[i][2])]]

findTaskOccurrences(sched, taskName) ==
    IF sched = <<>> THEN <<>>
    ELSE IF some(sched[1].daily_tasks, taskName)
           THEN << [type |-> "daily", frequency |-> "Daily"] >>
    ELSE LET tws  == sched[1].twelve_week_schedule
             hits == SelectSeq(AllSlots,
                        LAMBDA sl : some(weekDayTasks(tws, sl[1], sl[2]), taskName))
         IN  [i \in 1 .. Len(hits) |->
                [type |-> "weekly", week |-> hits[i][1], dayName |-> hits[i][2],
                 dayOfWeek |-> indexOf(daysOfWeek, hits[i][2])]]

----------------------------------------------------------------------------
(* Due-date calculator                                                      *)

\* The text of a result.  date is the local calendar day the formatted date
\* string shows, weekday the day name it shows (as a getDay() number).
Text(label, date, weekday, withYear) ==
    [label |-> label, date |-> date, weekday |-> weekday, withYear |-> withYear]

occurrenceDateKeepToday(occ, today, currentWeek, tz) ==
    LET weeksUntil == JsRem(occ.week - currentWeek + 12, 12)
        moved      == addDays(today, occ.dayOfWeek - getDay(today, tz))
        rolled     == IF moved < today THEN addDays(moved, 7) ELSE moved
    IN  IF weeksUntil > 0 THEN addDays(rolled, weeksUntil * 7) ELSE rolled

\* The date of one occurrence, as the forEach body computes it.
occurrenceDate(occ, today, currentWeek, tz) ==
    LET weeksUntil == JsRem(occ.week - currentWeek + 12, 12)
        moved      == addDays(today, occ.dayOfWeek - getDay(today, tz))
        rolled     == IF moved <= today THEN addDays(moved, 7) ELSE moved
    IN  IF weeksUntil > 0 THEN addDays(rolled, weeksUntil * 7) ELSE rolled

\* Math.round((12 * 7) / n).
expectedFrequencyDays(n) == Floor(2 * (12 * 7) + n, 2 * n)

isOverdueAtLeast(daysSinceCompletion, n) ==
    daysSinceCompletion >= expectedFrequencyDays(n) + 3

\* The test of the overdue branch, n = occurrences.length.
isOverdue(daysSinceCompletion, n) ==
    daysSinceCompletion > expectedFrequencyDays(n) + 3

\* getNextScheduledDate(task), called at instant now in a browser at tz.
getNextScheduledDate(sched, task, now, tz) ==
    LET today       == setHoursZero(now, tz)
        occurrences == findTaskOccurrences(sched, task.name)
    IN
    IF Len(occurrences) = 0 THEN
        IF task.lastCompleted # <<>>
          THEN [text |-> Text("As needed", <<>>, <<>>, FALSE), overdue |-> FALSE]
          ELSE [text |-> Text("Not scheduled", <<>>, <<>>, FALSE), overdue |-> FALSE]
    ELSE IF occurrences[1].type = "daily" THEN
        LET nextDate == addDays(today, 1)
        IN  [text |-> Text("Tomorrow", <<LocalDay(nextDate, tz)>>, <<>>, FALSE),
             overdue |-> FALSE]
    ELSE
        LET currentWeek     == getCurrentWeekInCycle(now)
            nextOccurrences == [i \in DOMAIN occurrences |->
                                  occurrenceDate(occurrences[i], today, currentWeek, tz)]
            nextDate        == SeqMin(nextOccurrences)
            isOverdueFlag   ==
                IF task.lastCompleted # <<>>
                  THEN LET lastCompleted ==
                               setHoursZero(parseDate(task.lastCompleted[1]), tz)
                           daysSinceCompletion ==
                               Floor(today - lastCompleted, DayLength)
                       IN  isOverdue(daysSinceCompletion, Len(occurrences))
                  ELSE FALSE
            diffDays        == Floor(nextDate - today, DayLength)
            date            == <<LocalDay(nextDate, tz)>>
        IN  IF diffDays = 0 THEN
                [text |-> Text("Due today", <<>>, <<>>, FALSE), overdue |-> isOverdueFlag]
            ELSE IF diffDays = 1 THEN
                [text |-> Text("Tomorrow", date, <<>>, TRUE), overdue |-> isOverdueFlag]
            ELSE IF diffDays <= 7 THEN
                [text |-> Text("Weekday", date, <<getDay(nextDate, tz)>>, TRUE),
                 overdue |-> isOverdueFlag]
            ELSE
                [text |-> Text("Date", date, <<>>, TRUE), overdue |-> isOverdueFlag]

----------------------------------------------------------------------------
(* History store adapter and task-state store                               *)

Clients == {"c1", "c2"}

\* The checkboxes renderTodaysTasks creates (data-task-id), and the task of
\* each: one daily task and one focus task of today.
TaskIds == {"daily-0", "focus-0"}

TaskOf ==
    [id \in TaskIds |->
        IF id = "daily-0" THEN [name |-> "Wipe counters", location |-> "Kitchen"]
                          ELSE [name |-> "Vacuum", location |-> "Living Room"]]

\* The object {}.
EmptyMap == [x \in {} |-> x]

\* A localStorage item: absent (getItem gives null), text JSON.parse
\* rejects, or the JSON text of value[1].
Absent == [kind |-> "absent", value |-> <<>>]

Malformed == [kind |-> "malformed", value |-> <<>>]

\* localStorage.setItem(key, JSON.stringify(v)).
Json(v) == [kind |-> "json", value |-> <<v>>]

NoData == [date |-> 0, tasks |-> EmptyMap]

\* A handler slot that holds no suspended handler.  returned: the earlier
\* recordTaskCompletion calls of the client that had returned when the
\* handler was called.
IdleHandler ==
    [pc |-> "idle", action |-> 0, taskId |-> "", checked |-> FALSE, today |-> 0,
     history |-> EmptyMap, data |-> NoData, returned |-> {}]

\* The number of change handlers of one client suspended at the same time.
MaxInFlight == 2

\* map[k] = v on a JavaScript object.
Put(map, k, v) == [x \in (DOMAIN map) \cup {k} |-> IF x = k THEN v ELSE map[x]]

pruneHistoryThirteenWeeks(history, t) ==
    LET twelveWeeksAgo == addDays(t, -(13 * 7))
        kept == {k \in DOMAIN history :
                    ~(parseDate(history[k].lastCompleted) < twelveWeeksAgo)}
    IN  [k \in kept |-> history[k]]

\* The clean-up loop of recordTaskCompletion, run at instant t.
pruneHistory(history, t) ==
    LET twelveWeeksAgo == addDays(t, -(12 * 7))
        kept == {k \in DOMAIN history :
                    ~(parseDate(history[k].lastCompleted) < twelveWeeksAgo)}
    IN  [k \in kept |-> history[k]]

\* recordTaskCompletion from the history it read to the map it persists:
\* today is the date string taken on entry, t the instant of the clean-up.
completedHistory(history, task, today, t) ==
    pruneHistory(Put(history, task.name,
                     [location |-> task.location, lastCompleted |-> today]), t)

remoteSetMerge(old, data) ==
    IF old = <<>> THEN <<data>>
    ELSE << [x \in (DOMAIN old[1]) \cup (DOMAIN data) |->
                IF x \in DOMAIN data THEN data[x] ELSE old[1][x]] >>

\* doc(..).set(data) applied by Firestore to a document that held old: the
\* document is replaced, whatever it held.
remoteSet(old, data) == <<data>>

\* doc.exists ? doc.data() : {}
docData(doc) == IF doc = <<>> THEN EmptyMap ELSE doc[1]

\* saved ? JSON.parse(saved) : {} (no try around it): whether it throws,
\* and the value otherwise.
parseLocalHistory(item) ==
    [threw |-> item.kind = "malformed",
     value |-> IF item.kind = "json" THEN item.value[1] ELSE EmptyMap]

\* The data saveTaskStates builds from the checkboxes of client c.
taskStatesData(boxes, t) == [date |-> LocalDay(t, 0), tasks |-> boxes]

\* Object.keys(data.tasks).forEach(...): the saved states applied to the
\* checkboxes that exist.
applyStates(boxes, data) ==
    [id \in DOMAIN boxes |-> IF id \in DOMAIN data.tasks THEN data.tasks[id] ELSE boxes[id]]

\* if (checkbox.checked) of the change handler: the completion is recorded.
recordsCompletionAlways(checked) == TRUE

recordsCompletionInverted(checked) == ~checked

recordsCompletion(checked) == checked

\* A store event of the change handler that serves checkbox change number
\* action (of checkbox taskId, to checked): "histDone" (the history write
\* of recordTaskCompletion has completed, in store), "stateIssued" (the
\* write of saveTaskStates has been issued), "threw" (the handler ended
\* with an uncaught exception).  A "histDone" event carries the date
\* recorded and the map persisted, a "stateIssued" event the data written.
Event(kind, c, h, store) ==
    [kind |-> kind, client |-> c, taskId |-> h.taskId, checked |-> h.checked,
     store |-> store, today |-> h.today, history |-> h.history, data |-> h.data]

FreeSlots(c) == {h \in 1 .. MaxInFlight : handlers[c][h].pc = "idle"}

FreeSlot(c) == CHOOSE h \in FreeSlots(c) : \A g \in FreeSlots(c) : h <= g

----------------------------------------------------------------------------
(* DOMContentLoaded handler                                                 *)

\* initializeFirebase, then the handler up to its first loadTaskStates call.
\* outcome is the step of initializeFirebase that fails, if any: the config
\* fetch, firebase.initializeApp / firestore(), or the test read.  db is set
\* once firestore() has returned, before the test read.
InitializeFirebase(c) ==
    /\ boot[c].pc = "boot"
    /\ \E outcome \in {"ok", "configFetchFailed", "appInitFailed", "testReadFailed"} :
          /\ db' = [db EXCEPT ![c] = outcome \in {"ok", "testReadFailed"}]
          /\ initOk' = [initOk EXCEPT ![c] = IF outcome = "ok" THEN "true" ELSE "false"]
    \* loadTaskStates() entered: today's key is taken, the read issued
    /\ boot' = [boot EXCEPT ![c] = [pc |-> "load1", key |-> LocalDay(clock, 0)]]
    /\ usedRemote' = [usedRemote EXCEPT ![c] = db'[c]]
    /\ UNCHANGED <<clock, remoteHistory, remoteStates, listening, checkbox,
                   localHistory, localStates, handlers, nToggles, log>>
    /\ UNCHANGED <<clockVars, dueVars>>

\* The rest of loadTaskStates for client c, whose read of the key's document
\* succeeded (ok) or failed: the checkboxes and the local item after it.
loadedBoxes(c, key, ok) ==
    IF db[c] /\ ok
      THEN IF key \in DOMAIN remoteStates
             THEN applyStates(checkbox[c], remoteStates[key]) ELSE checkbox[c]
      ELSE IF localStates[c].kind = "json" /\ localStates[c].value[1].date = key
             THEN applyStates(checkbox[c], localStates[c].value[1]) ELSE checkbox[c]

loadedLocalItem(c, key) ==
    IF ~db[c] /\ localStates[c].kind = "json" /\ localStates[c].value[1].date # key
      THEN Absent ELSE localStates[c]

\* setupRealtimeListeners, called if (db).
setupRealtimeListeners(c) == db[c]

\* A loadTaskStates call of the handler returns; the handler runs on to its
\* next await, or to its end.
LoadTaskStates(c) ==
    /\ boot[c].pc \in {"load1", "load2"}
    /\ \E ok \in BOOLEAN :
          /\ (~ok => db[c])
          /\ checkbox' = [checkbox EXCEPT ![c] = loadedBoxes(c, boot[c].key, ok)]
    /\ localStates' = [localStates EXCEPT ![c] = loadedLocalItem(c, boot[c].key)]
    /\ IF boot[c].pc = "load1"
         THEN /\ boot' = [boot EXCEPT ![c] = [pc |-> "load2", key |-> LocalDay(clock, 0)]]
              /\ UNCHANGED listening
         ELSE \* setupRealtimeListeners takes today's key for its listener
              /\ boot' = [boot EXCEPT ![c] = [pc |-> "ready", key |-> LocalDay(clock, 0)]]
              /\ listening' = [listening EXCEPT ![c] = setupRealtimeListeners(c)]
    /\ UNCHANGED <<clock, remoteHistory, remoteStates, db, initOk, usedRemote,
                   localHistory, handlers, nToggles, log>>
    /\ UNCHANGED <<clockVars, dueVars>>

----------------------------------------------------------------------------
(* Checkbox change handler: recordTaskCompletion, then saveTaskStates        *)

\* The number of checkbox changes in a run.
MaxToggles == 2

StoreName(ok) == IF ok THEN "remote" ELSE "local"

\* The checkbox changes of client c whose recordTaskCompletion call has
\* returned.
ReturnedCalls(c) ==
    {a \in 1 .. nToggles :
        log[a] # <<>> /\ log[a][1].kind = "histDone" /\ log[a][1].client = c}

\* The user changes checkbox id of client c; its change handler runs to its
\* first await on Firestore.  With db null nothing suspends the handler: it
\* runs to its end (or to the exception JSON.parse throws).
ToggleCheckbox(c, id) ==
    /\ boot[c].pc = "ready"
    /\ nToggles < MaxToggles
    /\ db[c] => FreeSlots(c) # {}
    /\ LET checked == ~checkbox[c][id]
           boxes   == [checkbox[c] EXCEPT ![id] = checked]
           h       == [IdleHandler EXCEPT !.action = nToggles + 1, !.taskId = id,
                                          !.checked = checked,
                                          !.today = toISODate(clock),
                                          !.returned = ReturnedCalls(c)]
           read    == parseLocalHistory(localHistory[c])
           history == completedHistory(read.value, TaskOf[id], h.today, clock)
           data    == taskStatesData(boxes, clock)
       IN
       /\ nToggles' = nToggles + 1
       /\ checkbox' = [checkbox EXCEPT ![c] = boxes]
       /\ IF db[c] THEN
             /\ handlers' = [handlers EXCEPT ![c][FreeSlot(c)] =
                   IF recordsCompletion(checked)
                     THEN [h EXCEPT !.pc = "histGet"]
                     ELSE [h EXCEPT !.pc = "stateSet", !.data = data]]
             /\ log' = [log EXCEPT ![h.action] =
                   IF recordsCompletion(checked)
                     THEN @ ELSE Append(@, Event("stateIssued", c,
                                                 [h EXCEPT !.data = data], "remote"))]
             /\ UNCHANGED <<localHistory, localStates>>
          ELSE IF recordsCompletion(checked) /\ read.threw THEN
             /\ log' = [log EXCEPT ![h.action] = Append(@, Event("threw", c, h, "local"))]
             /\ UNCHANGED <<handlers, localHistory, localStates>>
          ELSE
             /\ localHistory' = [localHistory EXCEPT ![c] =
                   IF recordsCompletion(checked) THEN Json(history) ELSE @]
             /\ localStates' = [localStates EXCEPT ![c] = Json(data)]
             /\ log' = [log EXCEPT ![h.action] =
                   IF recordsCompletion(checked)
                     THEN << Event("histDone", c, [h EXCEPT !.history = history], "local"),
                             Event("stateIssued", c,
                                   [h EXCEPT !.history = history, !.data = data], "local") >>
                     ELSE << Event("stateIssued", c, [h EXCEPT !.data = data], "local") >>]
             /\ UNCHANGED handlers
    /\ UNCHANGED <<clock, remoteHistory, remoteStates, db, boot, initOk, usedRemote,
                   listening>>
    /\ UNCHANGED <<clockVars, dueVars>>

\* await getTaskHistory() of recordTaskCompletion returns in handler h of
\* client c: the remote read succeeded, or failed and the local item was
\* read instead.  The handler adds the completion, cleans up and issues the
\* write of the whole map.
HistoryRead(c, h) ==
    /\ handlers[c][h].pc = "histGet"
    /\ \E ok \in BOOLEAN :
          LET read == IF ok THEN [threw |-> FALSE, value |-> docData(remoteHistory)]
                            ELSE parseLocalHistory(localHistory[c])
              hd   == handlers[c][h]
          IN  IF read.threw
                THEN /\ handlers' = [handlers EXCEPT ![c][h] = IdleHandler]
                     /\ log' = [log EXCEPT ![hd.action] =
                                   Append(@, Event("threw", c, hd, "local"))]
                ELSE /\ handlers' = [handlers EXCEPT ![c][h] =
                           [hd EXCEPT !.pc = "histSet",
                                      !.history = completedHistory(read.value,
                                                     TaskOf[hd.taskId], hd.today, clock)]]
                     /\ UNCHANGED log
    /\ usedRemote' = [usedRemote EXCEPT ![c] = TRUE]
    /\ UNCHANGED <<clock, remoteHistory, remoteStates, db, boot, initOk, listening,
                   checkbox, localHistory, localStates, nToggles>>
    /\ UNCHANGED <<clockVars, dueVars>>

\* The write of the history map completes: applied by Firestore, or failed
\* and mirrored to localStorage.  recordTaskCompletion returns and
\* saveTaskStates reads the checkboxes and issues its write.
HistoryWrite(c, h) ==
    /\ handlers[c][h].pc = "histSet"
    /\ \E ok \in BOOLEAN :
          LET hd == handlers[c][h]
          IN  /\ remoteHistory' = IF ok THEN remoteSet(remoteHistory, hd.history)
                                        ELSE remoteHistory
              /\ localHistory' = [localHistory EXCEPT ![c] =
                                     IF ok THEN @ ELSE Json(hd.history)]
              /\ log' = [log EXCEPT ![hd.action] =
                            << Event("histDone", c, hd, StoreName(ok)),
                               Event("stateIssued", c,
                                     [hd EXCEPT !.data = taskStatesData(checkbox[c], clock)],
                                     "remote") >>]
              /\ handlers' = [handlers EXCEPT ![c][h] =
                                 [hd EXCEPT !.pc = "stateSet",
                                            !.data = taskStatesData(checkbox[c], clock)]]
    /\ UNCHANGED <<clock, remoteStates, db, boot, initOk, usedRemote, listening,
                   checkbox, localStates, nToggles>>
    /\ UNCHANGED <<clockVars, dueVars>>

setDocKeepExisting(docs, key, data) ==
    IF key \in DOMAIN docs THEN docs ELSE Put(docs, key, data)

\* doc(key).set(data) applied by Firestore: the document of that key becomes
\* data, whether or not it existed.
setDoc(docs, key, data) == Put(docs, key, data)

\* The write of the day's task states completes: applied by Firestore, or
\* failed and mirrored to localStorage.  saveTaskStates calls
\* renderHistoryView, which writes to no store, and the handler ends.
StateWrite(c, h) ==
    /\ handlers[c][h].pc = "stateSet"
    /\ \E ok \in BOOLEAN :
          LET hd == handlers[c][h]
          IN  /\ remoteStates' = IF ok THEN setDoc(remoteStates, hd.data.date, hd.data)
                                       ELSE remoteStates
              /\ localStates' = [localStates EXCEPT ![c] =
                                    IF ok THEN @ ELSE Json(hd.data)]
              /\ UNCHANGED log
    /\ handlers' = [handlers EXCEPT ![c][h] = IdleHandler]
    /\ usedRemote' = [usedRemote EXCEPT ![c] = TRUE]
    /\ UNCHANGED <<clock, remoteHistory, db, boot, initOk, listening, checkbox,
                   localHistory, nToggles>>
    /\ UNCHANGED <<clockVars, dueVars>>

dispatchesChangeOnUpdate(hasUpdates) == hasUpdates

\* checkbox.checked = data.tasks[taskId] in the snapshot callback: an
\* assignment from script dispatches no change event, so no change handler
\* runs.
dispatchesChange(hasUpdates) == FALSE

\* The task-states listener of client c is called with the document of the
\* key it was set up for: the saved states are applied to the checkboxes.
\* A change handler run by it would be one that serves no user action
\* (action 0).
TaskStatesSnapshot(c) ==
    /\ listening[c]
    /\ boot[c].key \in DOMAIN remoteStates
    /\ LET boxes      == applyStates(checkbox[c], remoteStates[boot[c].key])
           hasUpdates == boxes # checkbox[c]
       IN  /\ checkbox' = [checkbox EXCEPT ![c] = boxes]
           /\ handlers' =
                 IF dispatchesChange(hasUpdates) /\ FreeSlots(c) # {}
                   THEN [handlers EXCEPT ![c][FreeSlot(c)] =
                           [IdleHandler EXCEPT !.pc = "stateSet",
                                               !.data = taskStatesData(boxes, clock)]]
                   ELSE handlers
    /\ UNCHANGED <<clock, remoteHistory, remoteStates, db, boot, initOk, usedRemote,
                   listening, localHistory, localStates, nToggles, log>>
    /\ UNCHANGED <<clockVars, dueVars>>

\* Time passes: the clock moves on to a later instant of the given set.
AdvanceClock(instants) ==
    /\ \E t \in instants : t > clock /\ clock' = t
    /\ UNCHANGED <<remoteHistory, remoteStates, db, boot, initOk, usedRemote,
                   listening, checkbox, localHistory, localStates, handlers,
                   nToggles, log>>
    /\ UNCHANGED <<clockVars, dueVars>>

ClientStep(c) ==
    \/ InitializeFirebase(c)
    \/ LoadTaskStates(c)
    \/ \E id \in TaskIds : ToggleCheckbox(c, id)
    \/ \E h \in 1 .. MaxInFlight : HistoryRead(c, h)
    \/ \E h \in 1 .. MaxInFlight : HistoryWrite(c, h)
    \/ \E h \in 1 .. MaxInFlight : StateWrite(c, h)
    \/ TaskStatesSnapshot(c)

----------------------------------------------------------------------------
(* SpecClock: the cycle clock read at an arbitrary instant, then read again *)
(* after the clock was moved by one cycle or mirrored about the reference.  *)

MaxClockDays == 100

ClockInstants == (-(MaxClockDays * DayLength)) .. (MaxClockDays * DayLength)

\* The stores and clients are not in use.
SyncIdle ==
    /\ clock = REFERENCE_DATE
    /\ remoteHistory = <<>>
    /\ remoteStates = EmptyMap
    /\ db = [c \in Clients |-> FALSE]
    /\ boot = [c \in Clients |-> [pc |-> "off", key |-> 0]]
    /\ initOk = [c \in Clients |-> "pending"]
    /\ usedRemote = [c \in Clients |-> FALSE]
    /\ listening = [c \in Clients |-> FALSE]
    /\ checkbox = [c \in Clients |-> [id \in TaskIds |-> FALSE]]
    /\ localHistory = [c \in Clients |-> Absent]
    /\ localStates = [c \in Clients |-> Absent]
    /\ handlers = [c \in Clients |-> [h \in 1 .. MaxInFlight |-> IdleHandler]]
    /\ nToggles = 0
    /\ log = [a \in 1 .. MaxToggles |-> <<>>]

\* The due-date calculator is not in use.
DueIdle ==
    /\ schedule = <<>>
    /\ dueTask = [name |-> "", lastCompleted |-> <<>>]
    /\ dueNow = REFERENCE_DATE
    /\ dueTz = 0
    /\ dueOcc = <<>>
    /\ dueResult = <<>>

InitClock ==
    /\ clkNow \in ClockInstants
    /\ clkWeek = 0
    /\ clkPrev = 0
    /\ clkPhase = "start"
    /\ DueIdle
    /\ SyncIdle

\* displayCurrentDate: shows getCurrentWeekInCycle() of the current instant.
displayCurrentDate ==
    /\ clkPhase = "start"
    /\ clkWeek' = getCurrentWeekInCycle(clkNow)
    /\ clkPhase' = "shown"
    /\ UNCHANGED <<clkNow, clkPrev, dueVars, syncVars>>

\* The page is shown again one whole cycle (12 * 7 days) later.
ShowCycleLater ==
    /\ clkPhase = "shown"
    /\ clkNow' = clkNow + CycleLength
    /\ clkPrev' = clkWeek
    /\ clkWeek' = getCurrentWeekInCycle(clkNow')
    /\ clkPhase' = "fwd"
    /\ UNCHANGED <<dueVars, syncVars>>

\* The page is shown with the clock set one whole cycle earlier.
ShowCycleEarlier ==
    /\ clkPhase = "shown"
    /\ clkNow' = clkNow - CycleLength
    /\ clkPrev' = clkWeek
    /\ clkWeek' = getCurrentWeekInCycle(clkNow')
    /\ clkPhase' = "back"
    /\ UNCHANGED <<dueVars, syncVars>>

WholeWeeksFromReference(t) == Abs(t - REFERENCE_DATE) \div WeekLength

\* The page is shown at an instant on the other side of the reference, the
\* same number of whole weeks away from it.
ShowMirrored ==
    /\ clkPhase = "shown"
    /\ clkNow # REFERENCE_DATE
    /\ \E r \in 0 .. (WeekLength - 1) :
          LET dist == WholeWeeksFromReference(clkNow) * WeekLength + r
              t    == IF clkNow > REFERENCE_DATE THEN REFERENCE_DATE - dist
                                                 ELSE REFERENCE_DATE + dist
          IN  /\ t \in ClockInstants
              /\ t # REFERENCE_DATE
              /\ clkNow' = t
    /\ clkPrev' = clkWeek
    /\ clkWeek' = getCurrentWeekInCycle(clkNow')
    /\ clkPhase' = "mirror"
    /\ UNCHANGED <<dueVars, syncVars>>

NextClock ==
    \/ displayCurrentDate
    \/ ShowCycleLater
    \/ ShowCycleEarlier
    \/ ShowMirrored

SpecClock == InitClock /\ [][NextClock]_vars

\* The instant at which the week in clkPrev was shown.
ClockBefore ==
    CASE clkPhase = "fwd"  -> clkNow - CycleLength
      [] clkPhase = "back" -> clkNow + CycleLength
      [] OTHER             -> clkNow

\* C2 as stated: the week number is the same one whole cycle (84 days)
\* later and one whole cycle earlier, for every instant, before, at or
\* after the reference date.
C2_PeriodicEverywhere ==
    clkPhase \in {"fwd", "back"} => clkWeek = clkPrev

SameSideOfReference(a, b) ==
    \/ (a >= REFERENCE_DATE /\ b >= REFERENCE_DATE)
    \/ (a <= REFERENCE_DATE /\ b <= REFERENCE_DATE)

\* C2 amended: the week number is the same one whole cycle later and
\* earlier whenever the two instants are not on opposite sides of the
\* reference date.
C2_PeriodicSameSide ==
    (clkPhase \in {"fwd", "back"} /\ SameSideOfReference(ClockBefore, clkNow))
        => clkWeek = clkPrev

\* A week number read before the reference, not at midnight, and read
\* again one cycle earlier.
C2_Witness ==
    /\ clkPhase = "back"
    /\ ClockBefore < REFERENCE_DATE
    /\ ClockBefore % DayLength # 0
    /\ clkWeek = clkPrev
    /\ clkWeek = 7

\* C3: the week number is (floor(|now - reference| / 7 days) mod 12) + 1,
\* an integer in 1..12, 1 at the reference date, and the same at two
\* instants the same number of whole weeks before and after the reference.
C3_WeekFormula ==
    clkPhase # "start" =>
        /\ clkWeek \in 1 .. 12
        /\ clkWeek =
              (IF clkNow >= REFERENCE_DATE
                 THEN ((clkNow - REFERENCE_DATE) \div (7 * 24)) % 12
                 ELSE ((REFERENCE_DATE - clkNow) \div (7 * 24)) % 12) + 1
        /\ (clkNow = REFERENCE_DATE => clkWeek = 1)
        /\ (clkPhase = "mirror" => clkWeek = clkPrev)

\* A week number read after the reference and again before it, the same
\* number of whole weeks away, in the last week of the cycle.
C3_Witness ==
    /\ clkPhase = "mirror"
    /\ clkNow < REFERENCE_DATE
    /\ clkWeek = 12
    /\ clkPrev = 12

----------------------------------------------------------------------------
(* SpecOcc: findTaskOccurrences on schedules in which task names collide    *)

MaxSlots == 4

\* The k-th rotation slot the schedules below fill: week_1/Monday,
\* week_7/Monday, week_2/Thursday, week_8/Thursday, ...
SampleSlot(k) ==
    <<(((k - 1) * 6 + ((k - 1) \div 2)) % CYCLE_LENGTH_WEEKS) + 1,
      DayKeys[((((k - 1) \div 2) * 3) % 7) + 1]>>

TaskLists ==
    {<<>>, <<"Vacuum">>, <<"Wipe counters">>, <<"Wipe counters", "Vacuum">>}

QueryNames == {"Vacuum", "Wipe counters", "Dust shelves"}

\* The schedule document with the given daily list and rotation grid.
ScheduleDoc(daily, tws) == [daily_tasks |-> daily, twelve_week_schedule |-> tws]

SlotIndex(sl) == CHOOSE k \in 1 .. MaxSlots : SampleSlot(k) = sl

OccSchedules ==
    {<<>>} \cup
    { << ScheduleDoc(daily,
            [sl \in {SampleSlot(k) : k \in {j \in 1 .. MaxSlots : f[j] # <<>>}} |->
                f[SlotIndex(sl)]]) >> :
        daily \in TaskLists, f \in [1 .. MaxSlots -> TaskLists] }

ClockIdle ==
    /\ clkNow = REFERENCE_DATE
    /\ clkWeek = 0
    /\ clkPrev = 0
    /\ clkPhase = "idle"

InitOcc ==
    /\ schedule \in OccSchedules
    /\ \E n \in QueryNames : dueTask = [name |-> n, lastCompleted |-> <<>>]
    /\ dueNow = REFERENCE_DATE
    /\ dueTz = 0
    /\ dueOcc = <<>>
    /\ dueResult = <<>>
    /\ ClockIdle
    /\ SyncIdle

\* findTaskOccurrences(task.name) on the loaded schedule.
CallFindTaskOccurrences ==
    /\ dueOcc = <<>>
    /\ dueOcc' = <<findTaskOccurrences(schedule, dueTask.name)>>
    /\ UNCHANGED <<schedule, dueTask, dueNow, dueTz, dueResult, clockVars, syncVars>>

NextOcc == CallFindTaskOccurrences

SpecOcc == InitOcc /\ [][NextOcc]_vars

\* The rotation slots (as <<week, day>>) whose task list names taskName.
SlotsNaming(taskName) ==
    IF schedule = <<>> THEN {}
    ELSE {sl \in DOMAIN schedule[1].twelve_week_schedule :
            \E i \in DOMAIN schedule[1].twelve_week_schedule[sl] :
                schedule[1].twelve_week_schedule[sl][i] = taskName}

IsDailyName(taskName) ==
    /\ schedule # <<>>
    /\ \E i \in DOMAIN schedule[1].daily_tasks : schedule[1].daily_tasks[i] = taskName

\* C6: for a name present in daily_tasks, findTaskOccurrences returns exactly
\* one occurrence, of type 'daily', and no weekly occurrence, also when the
\* name appears in rotation slots.
C6_DailyPrecedence ==
    (dueOcc # <<>> /\ IsDailyName(dueTask.name)) =>
        /\ Len(dueOcc[1]) = 1
        /\ dueOcc[1][1].type = "daily"
        /\ \A i \in DOMAIN dueOcc[1] : dueOcc[1][i].type # "weekly"

\* A daily name that also sits in two rotation slots, looked up.
C6_Witness ==
    /\ dueOcc # <<>>
    /\ IsDailyName(dueTask.name)
    /\ Cardinality(SlotsNaming(dueTask.name)) >= 2
    /\ Len(dueOcc[1]) = 1

----------------------------------------------------------------------------
(* SpecDue: getNextScheduledDate on one task ("Vacuum"), at instants around *)
(* one cycle and in browsers at several offsets from UTC                    *)

DueTzs == {-5, 0, 1}

DueHours == {0, 23}

\* The local days of "today": some before the reference, then a full cycle.
DueDaysBefore == 7

DueDaysAfter == 90

\* The largest number of rotation slots of a task, and the oldest completion.
MaxOcc == 8

MaxDaysAgo == 90

AllSlotSet == {AllSlots[i] : i \in DOMAIN AllSlots}

\* Slot sets of the date inputs: none, every single slot, every slot with
\* the slot half a cycle later, every slot with the Sunday of its week.
DateSlotSets ==
    {{}} \cup {{sl} : sl \in AllSlotSet}
         \cup {{sl, <<((sl[1] + 5) % CYCLE_LENGTH_WEEKS) + 1, sl[2]>>} : sl \in AllSlotSet}
         \cup {{sl, <<sl[1], "Sunday">>} : sl \in AllSlotSet}

RotationOf(slots, taskName) == ScheduleDoc(<<>>, [sl \in slots |-> <<taskName>>])

\* Inputs that exercise the date computation: never completed.
InitDueDates ==
    /\ \E slots \in DateSlotSets : schedule = << RotationOf(slots, "Vacuum") >>
    /\ dueTask = [name |-> "Vacuum", lastCompleted |-> <<>>]
    /\ dueTz \in DueTzs
    /\ \E d \in (-DueDaysBefore) .. DueDaysAfter, h \in DueHours :
          dueNow = REFERENCE_DATE + d * DayLength + h - dueTz

\* Inputs that exercise the overdue test: 0..MaxOcc slots, daily or not, a
\* completion up to MaxDaysAgo days back (or one day ahead), or none.
InitDueOverdue ==
    /\ dueTz \in DueTzs
    /\ \E d \in {3, DueDaysAfter + 10}, h \in DueHours :
          dueNow = REFERENCE_DATE + d * DayLength + h - dueTz
    /\ \/ schedule = <<>>
       \/ \E n \in 0 .. MaxOcc, daily \in {<<>>, <<"Vacuum">>} :
             schedule = << [RotationOf({SampleSlot(k) : k \in 1 .. n}, "Vacuum")
                               EXCEPT !.daily_tasks = daily] >>
    /\ \/ dueTask = [name |-> "Vacuum", lastCompleted |-> <<>>]
       \/ \E ago \in (-1) .. MaxDaysAgo :
             dueTask = [name |-> "Vacuum",
                        lastCompleted |-> << LocalDay(dueNow, dueTz) - ago >>]

\* The end-to-end example of the specification: "Vacuum" in week_1/Monday
\* and week_7/Monday only, today the Monday 2024-01-01 (cycle week 1), never
\* completed.
InitDueExample ==
    /\ schedule = << RotationOf({<<1, "Monday">>, <<7, "Monday">>}, "Vacuum") >>
    /\ dueTask = [name |-> "Vacuum", lastCompleted |-> <<>>]
    /\ dueTz = 0
    /\ dueNow = REFERENCE_DATE

InitDue ==
    /\ InitDueExample \/ InitDueDates \/ InitDueOverdue
    /\ dueOcc = <<>>
    /\ dueResult = <<>>
    /\ ClockIdle
    /\ SyncIdle

\* createHistoryTaskElement: getNextScheduledDate(task).  dueOcc keeps the
\* occurrence list the call worked on.
CallGetNextScheduledDate ==
    /\ dueResult = <<>>
    /\ dueResult' = <<getNextScheduledDate(schedule, dueTask, dueNow, dueTz)>>
    /\ dueOcc' = <<findTaskOccurrences(schedule, dueTask.name)>>
    /\ UNCHANGED <<schedule, dueTask, dueNow, dueTz, clockVars, syncVars>>

NextDue == CallGetNextScheduledDate

SpecDue == InitDue /\ [][NextDue]_vars

\* The task has a rotation slot in the current cycle week on today's weekday.
HasSlotToday ==
    \E sl \in SlotsNaming(dueTask.name) :
        /\ sl[1] = getCurrentWeekInCycle(dueNow)
        /\ indexOf(daysOfWeek, sl[2]) = getDay(dueNow, dueTz)

\* C1 as stated: a weekly task with a slot in the current cycle week on
\* today's weekday and no completion history is reported 'Due today', not
\* overdue.
C1_DueToday ==
    (/\ dueResult # <<>>
     /\ ~IsDailyName(dueTask.name)
     /\ dueTask.lastCompleted = <<>>
     /\ HasSlotToday)
        => /\ dueResult[1].text.label = "Due today"
           /\ dueResult[1].overdue = FALSE

\* Math.round(84 / n), stated by its rounding property.
RoundedInterval(n) ==
    CHOOSE r \in 0 .. (12 * 7) : (2 * r - 1) * n <= 2 * 84 /\ 2 * 84 < (2 * r + 1) * n

\* Whole days from the completion date to today, as local calendar days.
DaysSinceCompletion ==
    LocalDay(dueNow, dueTz) - LocalDay(parseDate(dueTask.lastCompleted[1]), dueTz)

----------------------------------------------------------------------------
(* SpecSync: two browsers on the shared Firestore documents, on one day      *)

\* What localStorage may hold when the page is opened.
InitialItems == {Absent, Malformed}

InitSync ==
    /\ clock = REFERENCE_DATE
    /\ remoteHistory = <<>>
    /\ remoteStates = EmptyMap
    /\ db = [c \in Clients |-> FALSE]
    /\ boot = [c \in Clients |-> [pc |-> "boot", key |-> 0]]
    /\ initOk = [c \in Clients |-> "pending"]
    /\ usedRemote = [c \in Clients |-> FALSE]
    /\ listening = [c \in Clients |-> FALSE]
    /\ checkbox = [c \in Clients |-> [id \in TaskIds |-> FALSE]]
    /\ \E item \in InitialItems : localHistory = [c \in Clients |-> item]
    /\ \E item \in InitialItems : localStates = [c \in Clients |-> item]
    /\ handlers = [c \in Clients |-> [h \in 1 .. MaxInFlight |-> IdleHandler]]
    /\ nToggles = 0
    /\ log = [a \in 1 .. MaxToggles |-> <<>>]
    /\ ClockIdle
    /\ DueIdle

NextSync == \E c \in Clients : ClientStep(c)

SpecSync == InitSync /\ [][NextSync]_vars

\* C7 (as the specification states it): a client whose initializeFirebase
\* returned false makes no call to Firestore afterwards and attaches no
\* snapshot listener.
C7_LocalOnlyAfterFailedInit ==
    \A c \in Clients : initOk[c] = "false" => ~usedRemote[c] /\ ~listening[c]

\* C8 (as the specification states it): no change handler is ended by an
\* exception, whatever localStorage holds.
C8_NoHandlerAborted ==
    \A a \in DOMAIN log : \A i \in DOMAIN log[a] : log[a][i].kind # "threw"

\* C9: recordTaskCompletion writes its map back with no version check: when
\* Firestore applies the write of a handler, the shared history document
\* becomes that handler's map, whatever the document has become since the
\* handler read it.
C9_LastWriteWins ==
    [][\A c \in Clients : \A h \in 1 .. MaxInFlight :
          ( /\ handlers[c][h].pc = "histSet"
            /\ handlers'[c][h].pc = "stateSet"
            /\ log'[handlers[c][h].action][1].store = "remote" )
          => remoteHistory' = << handlers[c][h].history >>]_vars

\* Two completions of different tasks were both written to the shared
\* document, every handler has ended, and the document lacks one of them.
C9_Witness ==
    /\ \A c \in Clients : \A h \in 1 .. MaxInFlight : handlers[c][h].pc = "idle"
    /\ remoteHistory # <<>>
    /\ \E a, b \in DOMAIN log :
          /\ a # b
          /\ log[a] # <<>> /\ log[b] # <<>>
          /\ log[a][1].kind = "histDone" /\ log[a][1].store = "remote"
          /\ log[b][1].kind = "histDone" /\ log[b][1].store = "remote"
          /\ log[a][1].taskId # log[b][1].taskId
          /\ TaskOf[log[a][1].taskId].name \notin DOMAIN remoteHistory[1]

\* C10: for a checkbox toggled on, the task-state write is issued only
\* after the history write of the same action has completed.
C10_HistoryWriteFirst ==
    /\ \A a \in DOMAIN log : \A i \in DOMAIN log[a] :
          (log[a][i].kind = "stateIssued" /\ log[a][i].checked)
          => \E j \in 1 .. (i - 1) : log[a][j].kind = "histDone"
    /\ \A c \in Clients : \A h \in 1 .. MaxInFlight :
          handlers[c][h].pc \in {"histGet", "histSet"} => log[handlers[c][h].action] = <<>>

\* A toggle-on whose history write Firestore applied and whose state write
\* has been issued.
C10_Witness ==
    \E a \in DOMAIN log :
       /\ Len(log[a]) = 2
       /\ log[a][1].kind = "histDone" /\ log[a][1].store = "remote"
       /\ log[a][2].kind = "stateIssued" /\ log[a][2].checked

----------------------------------------------------------------------------
(* Echo suppression (SpecSync)                                              *)

\* The checkbox changes client c made: those whose handler has logged an
\* event and those whose handler has not yet.
TogglesBy(c) ==
    {a \in 1 .. nToggles :
        \/ log[a] # <<>> /\ log[a][1].client = c
        \/ \E h \in 1 .. MaxInFlight :
              handlers[c][h].pc # "idle" /\ handlers[c][h].action = a}

\* The task-state writes client c issued.
StateWritesBy(c) ==
    {w \in (1 .. nToggles) \X (1 .. 2) :
        /\ w[2] \in DOMAIN log[w[1]]
        /\ log[w[1]][w[2]].kind = "stateIssued"
        /\ log[w[1]][w[2]].client = c}

AbortedBy(c) ==
    {a \in 1 .. nToggles :
        \E i \in DOMAIN log[a] : log[a][i].kind = "threw" /\ log[a][i].client = c}

Quiet(c) == \A h \in 1 .. MaxInFlight : handlers[c][h].pc = "idle"

\* Every suspended handler serves a checkbox change of the user.
NoEchoHandler(c) ==
    \A h \in 1 .. MaxInFlight :
       handlers[c][h].pc # "idle" => handlers[c][h].action \in TogglesBy(c)

\* C11 (as the specification states it): no write comes from applying a
\* snapshot, and once its handlers have ended a client has issued as many
\* task-state writes as it had checkbox changes.
C11_WritesEqualToggles ==
    \A c \in Clients :
       /\ NoEchoHandler(c)
       /\ Quiet(c) => Cardinality(StateWritesBy(c)) = Cardinality(TogglesBy(c))

\* What does hold of C11: no write comes from applying a snapshot; every
\* task-state write is issued by the handler of one of the client's own
\* checkbox changes, at most one per change, and once the handlers have
\* ended only the changes whose handler was aborted by an exception have
\* none.
C11_NoEchoWrite ==
    \A c \in Clients :
       /\ NoEchoHandler(c)
       /\ Cardinality(StateWritesBy(c)) <= Cardinality(TogglesBy(c))
       /\ \A a \in TogglesBy(c) :
             Cardinality({w \in StateWritesBy(c) : w[1] = a}) <= 1
       /\ Quiet(c) =>
             Cardinality(StateWritesBy(c)) =
                Cardinality(TogglesBy(c) \ AbortedBy(c))

\* A client checked a box and unchecked it again, both handlers have ended,
\* and the listener, called with the document of the first write, has
\* checked the box again: two changes, two writes.
C11_Witness ==
    \E c \in Clients : \E id \in TaskIds :
       /\ listening[c] /\ Quiet(c)
       /\ nToggles = 2
       /\ TogglesBy(c) = {1, 2}
       /\ log[2][1].taskId = id /\ ~log[2][1].checked
       /\ checkbox[c][id]
       /\ Cardinality(StateWritesBy(c)) = 2

----------------------------------------------------------------------------
(* saveTaskStates as a full-replace write (SpecSync)                        *)

\* C13: when the write of a saveTaskStates call completes, the document of
\* its day is exactly the {date, tasks} the call built (or, the write having
\* failed, the local item is); a document that already was that data is left
\* as it was, so a second call with the same mapping changes nothing.
C13_StateWriteReplaces ==
    [][\A c \in Clients : \A h \in 1 .. MaxInFlight :
          (handlers[c][h].pc = "stateSet" /\ handlers'[c][h].pc = "idle")
          => LET d == handlers[c][h].data
             IN  \/ /\ remoteStates' = remoteStates
                    /\ localStates'[c] = Json(d)
                 \/ /\ d.date \in DOMAIN remoteStates'
                    /\ remoteStates'[d.date] = d
                    /\ \A k \in DOMAIN remoteStates' :
                          k # d.date => k \in DOMAIN remoteStates
                                        /\ remoteStates'[k] = remoteStates[k]
                    /\ (d.date \in DOMAIN remoteStates /\ remoteStates[d.date] = d)
                          => remoteStates' = remoteStates
                    /\ localStates' = localStates]_vars

\* One client called saveTaskStates twice with the same mapping, Firestore
\* applied both writes, and the document of the day is that mapping.
C13_Witness ==
    \E c \in Clients :
       /\ Quiet(c) /\ nToggles = 2 /\ TogglesBy(c) = {1, 2}
       /\ Cardinality(StateWritesBy(c)) = 2
       /\ localStates[c].kind # "json"
       /\ \E d \in {log[1][i].data : i \in DOMAIN log[1]} :
             /\ d.date \in DOMAIN remoteStates
             /\ remoteStates[d.date] = d
             /\ \A w \in StateWritesBy(c) : log[w[1]][w[2]].data = d

----------------------------------------------------------------------------
(* Unchecking a box (SpecSync)                                              *)

\* C14: the handler of a box being unchecked calls only saveTaskStates: the
\* step that unchecks it, and every later step of its handler, leaves the
\* shared history document and the local history item as they were, and the
\* handler never waits on a history read or write.
C14_UncheckKeepsHistory ==
    [][\A c \in Clients :
          /\ \A id \in TaskIds :
                (checkbox[c][id] /\ ~checkbox'[c][id] /\ nToggles' = nToggles + 1)
                => /\ remoteHistory' = remoteHistory
                   /\ localHistory' = localHistory
                   /\ \A h \in 1 .. MaxInFlight :
                         handlers'[c][h] # handlers[c][h]
                         => handlers'[c][h].pc = "stateSet"
          /\ \A h \in 1 .. MaxInFlight :
                ( /\ handlers[c][h].pc # "idle"
                  /\ ~handlers[c][h].checked
                  /\ handlers'[c][h] # handlers[c][h] )
                => /\ handlers[c][h].pc = "stateSet"
                   /\ remoteHistory' = remoteHistory
                   /\ localHistory' = localHistory]_vars

\* A box was checked and its completion recorded, then unchecked; both
\* handlers have ended and the store the completion went to still holds it.
C14_Witness ==
    \E c \in Clients :
       /\ Quiet(c) /\ nToggles = 2 /\ TogglesBy(c) = {1, 2}
       /\ Len(log[1]) = 2 /\ log[1][1].kind = "histDone"
       /\ Len(log[2]) = 1 /\ log[2][1].kind = "stateIssued"
       /\ log[2][1].taskId = log[1][1].taskId /\ ~log[2][1].checked
       /\ LET name  == TaskOf[log[1][1].taskId].name
              entry == [location |-> TaskOf[log[1][1].taskId].location,
                        lastCompleted |-> log[1][1].today]
          IN  IF log[1][1].store = "remote"
                THEN /\ remoteHistory # <<>>
                     /\ name \in DOMAIN remoteHistory[1]
                     /\ remoteHistory[1][name] = entry
                ELSE /\ localHistory[c].kind = "json"
                     /\ name \in DOMAIN localHistory[c].value[1]
                     /\ localHistory[c].value[1][name] = entry

----------------------------------------------------------------------------
(* SpecPrune: one browser recording completions over thirteen weeks         *)

\* Days around the retention limit, at midnight and at noon UTC.
PruneInstants ==
    {addDays(REFERENCE_DATE, d) + h :
        d \in {0, 1, CycleLength \div DayLength - 1, CycleLength \div DayLength,
               CycleLength \div DayLength + 1},
        h \in {0, HoursPerDay \div 2}}

InitPrune ==
    /\ clock = REFERENCE_DATE
    /\ remoteHistory = <<>>
    /\ remoteStates = EmptyMap
    /\ db = [c \in Clients |-> FALSE]
    /\ boot = [c \in Clients |-> IF c = "c1" THEN [pc |-> "boot", key |-> 0]
                                             ELSE [pc |-> "off", key |-> 0]]
    /\ initOk = [c \in Clients |-> "pending"]
    /\ usedRemote = [c \in Clients |-> FALSE]
    /\ listening = [c \in Clients |-> FALSE]
    /\ checkbox = [c \in Clients |-> [id \in TaskIds |-> FALSE]]
    /\ \E item \in InitialItems : localHistory = [c \in Clients |-> item]
    /\ localStates = [c \in Clients |-> Absent]
    /\ handlers = [c \in Clients |-> [h \in 1 .. MaxInFlight |-> IdleHandler]]
    /\ nToggles = 0
    /\ log = [a \in 1 .. MaxToggles |-> <<>>]
    /\ ClockIdle
    /\ DueIdle

NextPrune ==
    \/ ClientStep("c1")
    \/ AdvanceClock(PruneInstants)

SpecPrune == InitPrune /\ [][NextPrune]_vars

\* C5: the map a recordTaskCompletion call persisted holds no entry whose
\* lastCompleted is more than 84 days before the date the call recorded.
C5_PersistedMapPruned ==
    \A a \in DOMAIN log : \A i \in DOMAIN log[a] :
       log[a][i].kind = "histDone"
       => \A k \in DOMAIN log[a][i].history :
             log[a][i].today - log[a][i].history[k].lastCompleted
                <= CYCLE_LENGTH_WEEKS * 7

\* In local mode a first completion was persisted, and a second one of
\* another task, recorded more than 84 days later, persisted a map without
\* the first.
C5_Witness ==
    /\ ~db["c1"]
    /\ Len(log[1]) = 2 /\ Len(log[2]) = 2
    /\ log[1][1].kind = "histDone" /\ log[2][1].kind = "histDone"
    /\ log[1][1].taskId # log[2][1].taskId
    /\ log[2][1].today - log[1][1].today > CYCLE_LENGTH_WEEKS * 7
    /\ TaskOf[log[1][1].taskId].name \notin DOMAIN log[2][1].history

----------------------------------------------------------------------------
(* Day scoping of the task states (SpecPrune)                               *)

\* Checkbox id was checked by the user on the day with key day.
CheckedOnDay(id, day) ==
    \/ \E a \in 1 .. nToggles : \E i \in DOMAIN log[a] :
          log[a][i].taskId = id /\ log[a][i].checked /\ log[a][i].today = day
    \/ \E c \in Clients : \E h \in 1 .. MaxInFlight :
          /\ handlers[c][h].pc # "idle"
          /\ handlers[c][h].taskId = id
          /\ handlers[c][h].checked
          /\ handlers[c][h].today = day

\* C12 (as the specification states it): every entry that is true in the
\* task-states document of a day, or in the local item written for a day,
\* stems from a checkbox checked on that day.
C12_ChecksStemFromSameDay ==
    /\ \A day \in DOMAIN remoteStates : \A id \in DOMAIN remoteStates[day].tasks :
          remoteStates[day].tasks[id] => CheckedOnDay(id, day)
    /\ \A c \in Clients :
          localStates[c].kind = "json" =>
             \A id \in DOMAIN localStates[c].value[1].tasks :
                localStates[c].value[1].tasks[id]
                => CheckedOnDay(id, localStates[c].value[1].date)

----------------------------------------------------------------------------
(* The next-due date (SpecDue)                                              *)

DueToday == LocalDay(setHoursZero(dueNow, dueTz), dueTz)

\* The first calendar day strictly after today that falls on weekday d.
FirstDayAfterToday(d) ==
    DueToday + ((d - getDay(dueNow, dueTz) + 6) % 7) + 1

\* The day the next-due algorithm assigns to rotation slot sl.
CandidateDay(sl) ==
    FirstDayAfterToday(indexOf(daysOfWeek, sl[2]))
       + 7 * ((sl[1] - getCurrentWeekInCycle(dueNow) + 12) % 12)

HasWeeklyOccurrences ==
    /\ dueResult # <<>>
    /\ ~IsDailyName(dueTask.name)
    /\ SlotsNaming(dueTask.name) # {}

C16_CandidateIsScheduledSlot ==
    HasWeeklyOccurrences =>
       \A i \in DOMAIN dueOcc[1] :
          LET t == occurrenceDate(dueOcc[1][i], setHoursZero(dueNow, dueTz),
                                  getCurrentWeekInCycle(dueNow), dueTz)
          IN  /\ getDay(t, dueTz) = dueOcc[1][i].dayOfWeek
              /\ getCurrentWeekInCycle(t) = dueOcc[1][i].week

----------------------------------------------------------------------------
(* Reading back a recorded completion (SpecPrune: one writer)               *)

\* C17 (as stated): when the getTaskHistory call of a handler returns, the
\* map it returned (here with the new completion added) holds every
\* completion whose recordTaskCompletion call had returned, the same day,
\* before the handler was called, with the date recorded: also when that
\* write or this read fell back to localStorage.
C17_ReadYourWrites ==
    [][\A h \in 1 .. MaxInFlight :
          (handlers["c1"][h].pc = "histGet" /\ handlers'["c1"][h].pc = "histSet")
          => \A a \in handlers["c1"][h].returned :
                log[a][1].today = toISODate(clock)
                => LET name == TaskOf[log[a][1].taskId].name
                       read == handlers'["c1"][h].history
                   IN  /\ name \in DOMAIN read
                       /\ read[name].lastCompleted = log[a][1].today]_vars

====
